---- MODULE Spec2Model ----
(***************************************************************************)
(* Model of thinarthrill/spac_options: catalyst_watch.py (watchlist       *)
(* aggregation, retrying fetch client, per-ticker signal evaluation) and   *)
(* spac_options.py (option-volume monitor).                                *)
(*                                                                         *)
(* Units.  Prices are integers in cents (10.80 is 1080), volumes are       *)
(* integers, a mean of ten bars is carried as the sum of the ten bars      *)
(* (field base_x10) and a percentage as an exact fraction pct_num/pct_den. *)
(* The input values enumerated below are ones on which the double          *)
(* precision evaluation of the source and the exact evaluation agree.      *)
(***************************************************************************)
EXTENDS Integers, Sequences, FiniteSets, TLC

VARIABLES
    hist,       \* the history get_hist obtained for the ticker under analysis
    news_yf,    \* recent_news_count_yf's result for that ticker
    filings,    \* recent_filings_count_sec's result for that ticker
    called,     \* which function of the signal evaluator has been applied
    ret,        \* what it returned
    REQ_RETRIES,\* configured number of attempts of http_get / http_post_json
    method,     \* "GET" (http_get) or "POST" (http_post_json)
    h_pc,       \* position of the helper: before a request, before a sleep, finished
    h_i,        \* loop index i of the helper
    last_err,   \* its last_err
    h_ret,      \* the response it returned or the error it raised
    net_log,    \* requests issued and sleeps taken, in order
    NASDAQ_DISABLED,    \* configuration: the primary listing source is switched off
    GCS_BUCKET,         \* configuration: TRUE when a bucket name is set
    CAT_TEST_LIMIT,     \* configuration: hard cap on the watchlist, 0 = none
    upstream,   \* what each source answers at present: failure, or the tokens of its page / hits
    store_up,   \* whether the blob store can be reached at present
    blob,       \* the watchlist blob in the store: missing, or its text
    saved,      \* the list most recently written to the blob, <<>> if none was
    pc,         \* position of fetch_watchlist
    tickers,    \* its set "tickers"
    queried,    \* the sources it has queried in this run
    returned,   \* what it returned (or that it raised)
    prev,       \* outcome of the run before this one, when nothing outside changed since
    x_token,    \* a token found in a table cell / hit of a watchlist source
    x_source,   \* the source whose extraction rule has been applied to it
    x_out,      \* the tickers that rule contributed for it
    TELEGRAM_BOT_TOKEN, \* configuration: TRUE when a bot token is set
    TELEGRAM_CHAT_ID,   \* configuration: TRUE when a chat id is set
    tg_calls,   \* the calls of tg_send so far: which module's, the text, whether it raised
    tg_posts,   \* the requests sent to the Telegram API, in order
    tg_log,     \* the records written to the local log, in order
    SPAC_GCS_BUCKET,    \* configuration of spac_options.py: TRUE when GCS_BUCKET is set
    state_blob, \* the ticker-state blob in the store: missing, or the map it holds
    state,      \* the dict "state" of the run in progress (of the last run, between runs)
    s_pc,       \* position of the option monitor's main block
    s_i,        \* how many tickers of WATCHLIST its loop has been through
    s_runs,     \* runs of the option monitor started so far
    s_io,       \* loads and saves of the ticker-state blob issued by the run
    cycle,      \* the most recent process_ticker call: its inputs, what it emitted, how it ended
    visited,    \* tickers handed to process_ticker by the run, in order
    blob_before,\* the ticker-state blob as it was when the run started
    opt_alerts, \* per ticker, how many 'options newly available' events were emitted
    carried,    \* every run so far loaded the map the run before it ended with
    r_pc,       \* two processes of the option monitor on one blob: position of each
    r_i,        \* how many tickers of WATCHLIST the loop of each has been through
    r_state,    \* the dict "state" of each
    r_loaded,   \* the map load_state gave each
    r_log,      \* their loads and saves of the ticker-state blob, in order
    watch,      \* the list fetch_watchlist returned to main of catalyst_watch.py
    m_pc,       \* position of main
    m_i,        \* how many tickers of watch its loop has been through
    hits,       \* its list "hits"
    m_visited,  \* tickers handed to analyze_ticker, in order
    m_last,     \* how the most recent analyze_ticker call ended
    m_alert     \* what main handed to tg_send, if anything

sigvars == <<hist, news_yf, filings, called, ret>>

httpvars == <<REQ_RETRIES, method, h_pc, h_i, last_err, h_ret, net_log>>

watchvars == <<NASDAQ_DISABLED, GCS_BUCKET, CAT_TEST_LIMIT, upstream, store_up, blob, saved,
               pc, tickers, queried, returned, prev>>

extractvars == <<x_token, x_source, x_out>>

\* the state of the parts modelled after the three above
tgvars == <<TELEGRAM_BOT_TOKEN, TELEGRAM_CHAT_ID, tg_calls, tg_posts, tg_log>>

spacvars == <<SPAC_GCS_BUCKET, state_blob, state, s_pc, s_i, s_runs, s_io, cycle, visited,
              blob_before, opt_alerts, carried>>

mainvars == <<watch, m_pc, m_i, hits, m_visited, m_last, m_alert>>

racevars == <<r_pc, r_i, r_state, r_loaded, r_log>>

restvars == <<extractvars, tgvars, spacvars, mainvars, racevars>>

vars == <<hist, news_yf, filings, called, ret,
          REQ_RETRIES, method, h_pc, h_i, last_err, h_ret, net_log,
          NASDAQ_DISABLED, GCS_BUCKET, CAT_TEST_LIMIT, upstream, store_up, blob, saved,
          pc, tickers, queried, returned, prev,
          x_token, x_source, x_out,
          TELEGRAM_BOT_TOKEN, TELEGRAM_CHAT_ID, tg_calls, tg_posts, tg_log,
          SPAC_GCS_BUCKET, state_blob, state, s_pc, s_i, s_runs, s_io, cycle, visited,
          blob_before, opt_alerts, carried,
          r_pc, r_i, r_state, r_loaded, r_log,
          watch, m_pc, m_i, hits, m_visited, m_last, m_alert>>

(***************************************************************************)
(* Program constants (catalyst_watch.py, defaults of the environment).     *)
(***************************************************************************)
PRICE_MIN == 300
PRICE_MAX == 1500
VOL_SPIKE_MULT == 3
PRICE_MOVE_PCT == 8
NEWS_MIN == 1
\* REQ_BACKOFF (1.8) in tenths
REQ_BACKOFF == 18

(***************************************************************************)
(* Bounds of the enumerated inputs.                                        *)
(***************************************************************************)
MaxBars == 12
MaxCloses == 3
MaxRetries == 3
MaxTestLimit == 1

BaselineVols == {0, 1000}
LastVols == {0, 1000, 2999, 3000}
CloseVals == {500, 1000, 1079, 1080, 2000}
NewsCounts == {0, 1}

RECURSIVE SumSeq(_)
SumSeq(s) == IF s = <<>> THEN 0 ELSE Head(s) + SumSeq(Tail(s))

\* s[a..b] clipped to the sequence, as a Python slice is
Slice(s, a, b) ==
    LET lo == IF a < 1 THEN 1 ELSE a
        hi == IF b > Len(s) THEN Len(s) ELSE b
    IN  IF hi < lo THEN <<>> ELSE [i \in 1..(hi - lo + 1) |-> s[lo + i - 1]]

\* series of up to n values of S
SeqsUpTo(S, n) == UNION {[1..k -> S] : k \in 0..n}

\* volume histories: every bar but the last from BaselineVols, the last from LastVols
VolumeSeries ==
    {<<>>} \cup
    UNION {{Append(b, l) : b \in [1..(k - 1) -> BaselineVols], l \in LastVols} : k \in 1..MaxBars}

CloseSeries == SeqsUpTo(CloseVals, MaxCloses)

Flat(n, v) == [i \in 1..n |-> v]

\* representative volume histories used when the closes vary
SomeVolumeSeries ==
    {<<>>, Append(Flat(11, 1000), 10000), Append(Flat(11, 1000), 1000), Append(Flat(11, 0), 3000)}

\* volume histories vary freely against one close and no news; closes and news
\* counts vary freely against the representative volume histories
SignalInputs ==
    {[hist |-> [kind |-> "hist", Close |-> <<1000>>, Volume |-> v], news_yf |-> 0, filings |-> 0] :
        v \in VolumeSeries}
    \cup {[hist |-> [kind |-> "hist", Close |-> c, Volume |-> v], news_yf |-> n, filings |-> f] :
        c \in CloseSeries, v \in SomeVolumeSeries, n \in NewsCounts, f \in NewsCounts}
    \cup {[hist |-> [kind |-> "none"], news_yf |-> 0, filings |-> 0]}

(***************************************************************************)
(* Values of the parts of the state a specification does not exercise.     *)
(***************************************************************************)
None == [kind |-> "None"]

Failed == [ok |-> FALSE, tokens |-> {}]

NoBlob == [exists |-> FALSE, text |-> <<>>]

SignalIdle ==
    /\ hist = [kind |-> "none"]
    /\ news_yf = 0
    /\ filings = 0
    /\ called = "off"
    /\ ret = [kind |-> "idle"]

HttpIdle ==
    /\ REQ_RETRIES = 0
    /\ method = "none"
    /\ h_pc = "idle"
    /\ h_i = 0
    /\ last_err = None
    /\ h_ret = None
    /\ net_log = <<>>

WatchIdle ==
    /\ NASDAQ_DISABLED = FALSE
    /\ GCS_BUCKET = FALSE
    /\ CAT_TEST_LIMIT = 0
    /\ upstream = [nasdaq |-> Failed, stockanalysis |-> Failed, sec |-> Failed]
    /\ store_up = FALSE
    /\ blob = NoBlob
    /\ saved = <<>>
    /\ pc = "off"
    /\ tickers = {}
    /\ queried = {}
    /\ returned = None
    /\ prev = None

ExtractIdle ==
    /\ x_token = <<>>
    /\ x_source = "off"
    /\ x_out = None

TgIdle ==
    /\ TELEGRAM_BOT_TOKEN = FALSE
    /\ TELEGRAM_CHAT_ID = FALSE
    /\ tg_calls = <<>>
    /\ tg_posts = <<>>
    /\ tg_log = <<>>

\* {} as json.loads / the default of load_state gives it
EmptyMap == [t \in {} |-> None]

NoStateBlob == [exists |-> FALSE, map |-> EmptyMap]

NoCycle == [kind |-> "none"]

SpacIdle ==
    /\ SPAC_GCS_BUCKET = FALSE
    /\ state_blob = NoStateBlob
    /\ state = EmptyMap
    /\ s_pc = "off"
    /\ s_i = 0
    /\ s_runs = 0
    /\ s_io = [loads |-> 0, saves |-> 0]
    /\ cycle = NoCycle
    /\ visited = <<>>
    /\ blob_before = NoStateBlob
    /\ opt_alerts = EmptyMap
    /\ carried = TRUE

MainIdle ==
    /\ watch = <<>>
    /\ m_pc = "off"
    /\ m_i = 0
    /\ hits = <<>>
    /\ m_visited = <<>>
    /\ m_last = None
    /\ m_alert = None

\* the two processes of the option monitor that share one blob
Runs == {"A", "B"}

RaceIdle ==
    /\ r_pc = [r \in Runs |-> "off"]
    /\ r_i = [r \in Runs |-> 0]
    /\ r_state = [r \in Runs |-> EmptyMap]
    /\ r_loaded = [r \in Runs |-> EmptyMap]
    /\ r_log = <<>>

RestIdle == ExtractIdle /\ TgIdle /\ SpacIdle /\ MainIdle /\ RaceIdle

(***************************************************************************)
(* Text.  A string is the sequence of its character codes ("AB" is         *)
(* <<65, 66>>), so that upper-casing, stripping, replacing, joining,       *)
(* splitting and the ordering sorted() uses are computed, not assumed.     *)
(***************************************************************************)
\* str.isalpha / str.upper on the characters that occur in the enumerated
\* tokens, all of them ASCII
IsAlphaChar(c) == c \in 65..90 \/ c \in 97..122

UpperChar(c) == IF c \in 97..122 THEN c - 32 ELSE c

Upper(s) == [i \in 1..Len(s) |-> UpperChar(s[i])]

IsSpace(c) == c \in {9, 10, 11, 12, 13, 32}

RECURSIVE LStrip(_)
LStrip(s) == IF s # <<>> /\ IsSpace(Head(s)) THEN LStrip(Tail(s)) ELSE s

RECURSIVE RStrip(_)
RStrip(s) == IF s # <<>> /\ IsSpace(s[Len(s)]) THEN RStrip(SubSeq(s, 1, Len(s) - 1)) ELSE s

Strip(s) == RStrip(LStrip(s))

\* s.replace(pat, ""): every non-overlapping occurrence, scanning from the left
RECURSIVE RemoveAll(_, _)
RemoveAll(s, pat) ==
    IF Len(s) < Len(pat) THEN s
    ELSE IF SubSeq(s, 1, Len(pat)) = pat
         THEN RemoveAll(SubSeq(s, Len(pat) + 1, Len(s)), pat)
         ELSE <<Head(s)>> \o RemoveAll(Tail(s), pat)

IsAlpha(s) == s # <<>> /\ \A i \in 1..Len(s) : IsAlphaChar(s[i])

\* a < b as Python compares str: by code point, a proper prefix is smaller
StrLess(a, b) ==
    \E k \in 1..(Len(a) + 1) :
        /\ k <= Len(b)
        /\ \A j \in 1..(k - 1) : a[j] = b[j]
        /\ k = Len(a) + 1 \/ a[k] < b[k]

RECURSIVE Sorted(_)
Sorted(S) ==
    IF S = {} THEN <<>>
    ELSE LET m == CHOOSE x \in S : \A y \in S : x = y \/ StrLess(x, y)
         IN  <<m>> \o Sorted(S \ {m})

\* "\n".join(list)
RECURSIVE Join(_)
Join(list) ==
    IF list = <<>> THEN <<>>
    ELSE IF Len(list) = 1 THEN list[1]
    ELSE list[1] \o <<10>> \o Join(Tail(list))

\* text.splitlines(); the blob is written by gcs_save_text only, so "\n" is
\* the one line boundary that occurs in it
RECURSIVE SplitLines(_)
SplitLines(text) ==
    IF text = <<>> THEN <<>>
    ELSE IF \E k \in 1..Len(text) : text[k] = 10
         THEN LET k == CHOOSE k \in 1..Len(text) : text[k] = 10 /\ \A j \in 1..(k - 1) : text[j] # 10
              IN  <<SubSeq(text, 1, k - 1)>> \o SplitLines(SubSeq(text, k + 1, Len(text)))
         ELSE <<text>>

(***************************************************************************)
(* Watchlist sources.  A source answers with a failure (http_get /         *)
(* http_post_json raised after its retries, or the body could not be       *)
(* parsed) or with the tokens found in its table cells / hit list.         *)
(***************************************************************************)
Answer(T) == [ok |-> TRUE, tokens |-> T]

\* "B", "ab.U", "TOOLNG"
NasdaqResponses ==
    {Failed, Answer({}), Answer({<<66>>}), Answer({<<97, 98, 46, 85>>, <<66>>}),
     Answer({<<84, 79, 79, 76, 78, 71>>})}

\* "AB.W", "C"
StockAnalysisResponses ==
    {Failed, Answer({}), Answer({<<65, 66, 46, 87>>}), Answer({<<67>>})}

\* "C", "N/A", " b "
SecResponses ==
    {Failed, Answer({}), Answer({<<67>>}), Answer({<<78, 47, 65>>, <<32, 98, 32>>})}

\* base = t.replace(".U","").replace(".W",""); kept if 1 <= len(base) <= 5 and base.isalpha()
BaseOf(t) == RemoveAll(RemoveAll(t, <<46, 85>>), <<46, 87>>)

Accepted(base) == 1 <= Len(base) /\ Len(base) <= 5 /\ IsAlpha(base)

fetch_nasdaq_ipos(resp) ==
    IF NASDAQ_DISABLED THEN {}
    ELSE {BaseOf(Upper(Strip(t))) : t \in {u \in resp.tokens : Accepted(BaseOf(Upper(Strip(u))))}}

fetch_stockanalysis_ipos(resp) ==
    {BaseOf(Upper(Strip(t))) : t \in {u \in resp.tokens : Accepted(BaseOf(Upper(Strip(u))))}}

fetch_sec_spinoffs(resp) ==
    LET tick(t) == Strip(Upper(t))
        kept == {u \in resp.tokens :
                    /\ tick(u) # <<>>
                    /\ tick(u) # <<78, 47, 65>>
                    /\ Accepted(BaseOf(tick(u)))}
    IN  {BaseOf(tick(t)) : t \in kept}

(***************************************************************************)
(* Blob store (gcs_save_text / gcs_load_text).                             *)
(***************************************************************************)
\* the write adds to the text already stored
gcs_save_text_append(bucket, text) ==
    IF ~bucket THEN [raised |-> FALSE, blob |-> blob, wrote |-> FALSE]
    ELSE IF ~store_up THEN [raised |-> TRUE, blob |-> blob, wrote |-> FALSE]
    ELSE [raised |-> FALSE,
          blob |-> [exists |-> TRUE,
                    text |-> IF blob.exists THEN blob.text \o <<10>> \o text ELSE text],
          wrote |-> TRUE]

\* returns at once without a bucket; otherwise uploads, and an unreachable
\* store makes _get_gcs / upload_from_string raise to the caller
gcs_save_text(bucket, text) ==
    IF ~bucket THEN [raised |-> FALSE, blob |-> blob, wrote |-> FALSE]
    ELSE IF ~store_up THEN [raised |-> TRUE, blob |-> blob, wrote |-> FALSE]
    ELSE [raised |-> FALSE, blob |-> [exists |-> TRUE, text |-> text], wrote |-> TRUE]

\* never reads the store
gcs_load_text_default(bucket, default) == default

\* the text of the blob; the default when it is missing or on any exception
gcs_load_text(bucket, default) ==
    IF bucket /\ store_up /\ blob.exists THEN blob.text ELSE default

(***************************************************************************)
(* fetch_watchlist, step by step.                                          *)
(***************************************************************************)
\* saves whatever was collected
ShouldSave_always(all_tick) == GCS_BUCKET

\* "if all_tick and GCS_BUCKET"
ShouldSave(all_tick) == all_tick # <<>> /\ GCS_BUCKET

\* asks the secondary source in every run
NeedSecondary_always(t) == TRUE

\* "if not tickers"
NeedSecondary(t) == t = {}

\* a failure of the source discards what was collected
AfterSec_reset(t, resp) ==
    IF resp.ok THEN t \cup fetch_sec_spinoffs(resp) ELSE {}

\* try: tickers |= fetch_sec_spinoffs(...) except Exception: log
AfterSec(t, resp) ==
    IF resp.ok THEN t \cup fetch_sec_spinoffs(resp) ELSE t

\* the cap as it would be if it kept the last CAT_TEST_LIMIT elements
TestLimit_tail(all_tick) ==
    IF CAT_TEST_LIMIT # 0 /\ Len(all_tick) > CAT_TEST_LIMIT
    THEN SubSeq(all_tick, Len(all_tick) - CAT_TEST_LIMIT + 1, Len(all_tick))
    ELSE all_tick

\* "if CAT_TEST_LIMIT and len(all_tick) > CAT_TEST_LIMIT: all_tick = all_tick[:CAT_TEST_LIMIT]"
TestLimit(all_tick) ==
    IF CAT_TEST_LIMIT # 0 /\ Len(all_tick) > CAT_TEST_LIMIT
    THEN SubSeq(all_tick, 1, CAT_TEST_LIMIT)
    ELSE all_tick

\* [t.strip().upper() for t in cached.splitlines() if t.strip()]
CachedList(cached) ==
    LET lines == SelectSeq(SplitLines(cached), LAMBDA t : Strip(t) # <<>>)
    IN  [i \in 1..Len(lines) |-> Upper(Strip(lines[i]))]

Init ==
    /\ NASDAQ_DISABLED \in BOOLEAN
    /\ GCS_BUCKET \in BOOLEAN
    /\ CAT_TEST_LIMIT \in 0..MaxTestLimit
    /\ upstream \in [nasdaq : NasdaqResponses, stockanalysis : StockAnalysisResponses,
                     sec : SecResponses]
    /\ store_up \in BOOLEAN
    /\ blob = NoBlob
    /\ saved = <<>>
    /\ pc = "idle"
    /\ tickers = {}
    /\ queried = {}
    /\ returned = None
    /\ prev = None
    /\ SignalIdle
    /\ HttpIdle
    /\ RestIdle

\* the job is started (again); the outcome of the run just finished is kept for comparison
StartRun ==
    /\ pc \in {"idle", "done"}
    /\ pc' = "nasdaq"
    /\ tickers' = {}
    /\ queried' = {}
    /\ returned' = None
    /\ prev' = IF pc = "done"
               THEN [kind |-> "run", returned |-> returned, blob |-> blob, saved |-> saved]
               ELSE None
    /\ UNCHANGED <<NASDAQ_DISABLED, GCS_BUCKET, CAT_TEST_LIMIT, upstream, store_up, blob, saved>>
    /\ UNCHANGED <<sigvars, httpvars>>
    /\ UNCHANGED restvars

\* between two runs a source changes its answer or the store its reachability
EnvChange ==
    /\ pc \in {"idle", "done"}
    /\ \/ \E r \in NasdaqResponses \ {upstream.nasdaq} :
            upstream' = [upstream EXCEPT !.nasdaq = r] /\ UNCHANGED store_up
       \/ \E r \in StockAnalysisResponses \ {upstream.stockanalysis} :
            upstream' = [upstream EXCEPT !.stockanalysis = r] /\ UNCHANGED store_up
       \/ \E r \in SecResponses \ {upstream.sec} :
            upstream' = [upstream EXCEPT !.sec = r] /\ UNCHANGED store_up
       \/ store_up' = ~store_up /\ UNCHANGED upstream
    /\ pc' = "idle"
    /\ tickers' = {}
    /\ queried' = {}
    /\ returned' = None
    /\ prev' = None
    /\ UNCHANGED <<NASDAQ_DISABLED, GCS_BUCKET, CAT_TEST_LIMIT, blob, saved>>
    /\ UNCHANGED <<sigvars, httpvars>>
    /\ UNCHANGED restvars

\* 1) try: if not NASDAQ_DISABLED: tickers |= fetch_nasdaq_ipos() except Exception: log
StepNasdaq ==
    /\ pc = "nasdaq"
    /\ IF NASDAQ_DISABLED
       THEN UNCHANGED <<tickers, queried>>
       ELSE /\ queried' = queried \cup {"nasdaq"}
            /\ tickers' = IF upstream.nasdaq.ok
                          THEN tickers \cup fetch_nasdaq_ipos(upstream.nasdaq)
                          ELSE tickers
    /\ pc' = "stockanalysis"
    /\ UNCHANGED <<NASDAQ_DISABLED, GCS_BUCKET, CAT_TEST_LIMIT, upstream, store_up, blob, saved,
                   returned, prev>>
    /\ UNCHANGED <<sigvars, httpvars>>
    /\ UNCHANGED restvars

\* 2) if not tickers: try: tickers |= fetch_stockanalysis_ipos() except Exception: log
StepStockAnalysis ==
    /\ pc = "stockanalysis"
    /\ IF NeedSecondary(tickers)
       THEN /\ queried' = queried \cup {"stockanalysis"}
            /\ tickers' = IF upstream.stockanalysis.ok
                          THEN tickers \cup fetch_stockanalysis_ipos(upstream.stockanalysis)
                          ELSE tickers
       ELSE UNCHANGED <<tickers, queried>>
    /\ pc' = "sec"
    /\ UNCHANGED <<NASDAQ_DISABLED, GCS_BUCKET, CAT_TEST_LIMIT, upstream, store_up, blob, saved,
                   returned, prev>>
    /\ UNCHANGED <<sigvars, httpvars>>
    /\ UNCHANGED restvars

\* 3) try: tickers |= fetch_sec_spinoffs(days_back=SEC_DAYS_BACK) except Exception: log
StepSec ==
    /\ pc = "sec"
    /\ queried' = queried \cup {"sec"}
    /\ tickers' = AfterSec(tickers, upstream.sec)
    /\ pc' = "persist"
    /\ UNCHANGED <<NASDAQ_DISABLED, GCS_BUCKET, CAT_TEST_LIMIT, upstream, store_up, blob, saved,
                   returned, prev>>
    /\ UNCHANGED <<sigvars, httpvars>>
    /\ UNCHANGED restvars

\* all_tick = sorted(tickers); save it, or load the cached list when it is empty;
\* apply the test limit; return.  An exception of gcs_save_text is not caught.
StepPersist ==
    /\ pc = "persist"
    /\ LET all_tick == Sorted(tickers)
           save == IF ShouldSave(all_tick)
                   THEN gcs_save_text(GCS_BUCKET, Join(all_tick))
                   ELSE [raised |-> FALSE, blob |-> blob, wrote |-> FALSE]
           all_tick2 == IF all_tick = <<>> /\ GCS_BUCKET
                        THEN CachedList(gcs_load_text(GCS_BUCKET, <<>>))
                        ELSE all_tick
       IN  /\ blob' = save.blob
           /\ saved' = IF save.wrote THEN all_tick ELSE saved
           /\ returned' = IF save.raised
                          THEN [kind |-> "raise", list |-> <<>>]
                          ELSE [kind |-> "list", list |-> TestLimit(all_tick2)]
    /\ pc' = "done"
    /\ UNCHANGED <<NASDAQ_DISABLED, GCS_BUCKET, CAT_TEST_LIMIT, upstream, store_up,
                   tickers, queried, prev>>
    /\ UNCHANGED <<sigvars, httpvars>>
    /\ UNCHANGED restvars

Next == StartRun \/ EnvChange \/ StepNasdaq \/ StepStockAnalysis \/ StepSec \/ StepPersist

Spec == Init /\ [][Next]_vars

(***************************************************************************)
(* Resilient fetch client: http_get and http_post_json run the same loop.  *)
(***************************************************************************)
\* what one requests.get / requests.post can do
AttemptOutcomes ==
    {[kind |-> "status", code |-> 200],
     [kind |-> "status", code |-> 404],
     [kind |-> "status", code |-> 500],
     [kind |-> "exc", code |-> 0]}

\* the error an unsuccessful attempt leaves in last_err:
\* Exception("HTTP <code>") or the transport exception itself
ErrorOf(o) ==
    IF o.kind = "status"
    THEN [kind |-> "error", what |-> "HTTP", code |-> o.code]
    ELSE [kind |-> "error", what |-> "transport", code |-> 0]

RequestFailed == [kind |-> "error", what |-> "request failed", code |-> 0]

InitHttp ==
    /\ REQ_RETRIES \in 0..MaxRetries
    /\ method \in {"GET", "POST"}
    /\ h_pc = "request"
    /\ h_i = 0
    /\ last_err = None
    /\ h_ret = None
    /\ net_log = <<>>
    /\ SignalIdle
    /\ WatchIdle
    /\ RestIdle

\* one pass of "for i in range(REQ_RETRIES)" up to the return or the sleep;
\* a transport exception ends the helper at once
HttpAttempt_unguarded ==
    /\ h_pc = "request"
    /\ h_i < REQ_RETRIES
    /\ \E o \in AttemptOutcomes :
        /\ net_log' = Append(net_log, [ev |-> "request", method |-> method, attempt |-> h_i, outcome |-> o])
        /\ IF o.kind = "status" /\ o.code = 200
           THEN /\ h_pc' = "returned"
                /\ h_ret' = [kind |-> "response", status_code |-> 200, attempt |-> h_i]
                /\ UNCHANGED last_err
           ELSE IF o.kind = "exc"
           THEN /\ h_pc' = "raised"
                /\ h_ret' = ErrorOf(o)
                /\ last_err' = ErrorOf(o)
           ELSE /\ h_pc' = "sleep"
                /\ last_err' = ErrorOf(o)
                /\ UNCHANGED h_ret
    /\ UNCHANGED <<REQ_RETRIES, method, h_i>>
    /\ UNCHANGED sigvars
    /\ UNCHANGED watchvars
    /\ UNCHANGED restvars

\* one pass of "for i in range(REQ_RETRIES)" up to the return or the sleep
HttpAttempt ==
    /\ h_pc = "request"
    /\ h_i < REQ_RETRIES
    /\ \E o \in AttemptOutcomes :
        /\ net_log' = Append(net_log, [ev |-> "request", method |-> method, attempt |-> h_i, outcome |-> o])
        /\ IF o.kind = "status" /\ o.code = 200
           THEN /\ h_pc' = "returned"
                /\ h_ret' = [kind |-> "response", status_code |-> 200, attempt |-> h_i]
                /\ UNCHANGED last_err
           ELSE /\ h_pc' = "sleep"
                /\ last_err' = ErrorOf(o)
                /\ UNCHANGED h_ret
    /\ UNCHANGED <<REQ_RETRIES, method, h_i>>
    /\ UNCHANGED sigvars
    /\ UNCHANGED watchvars
    /\ UNCHANGED restvars

\* sleep_s = REQ_BACKOFF ** i; time.sleep(sleep_s); then the next i
HttpSleep ==
    /\ h_pc = "sleep"
    /\ net_log' = Append(net_log, [ev |-> "sleep", base_x10 |-> REQ_BACKOFF, exponent |-> h_i])
    /\ h_i' = h_i + 1
    /\ h_pc' = "request"
    /\ UNCHANGED <<REQ_RETRIES, method, last_err, h_ret>>
    /\ UNCHANGED sigvars
    /\ UNCHANGED watchvars
    /\ UNCHANGED restvars

\* the loop is over: raise last_err or Exception("request failed")
HttpRaise ==
    /\ h_pc = "request"
    /\ h_i >= REQ_RETRIES
    /\ h_pc' = "raised"
    /\ h_ret' = IF last_err # None THEN last_err ELSE RequestFailed
    /\ UNCHANGED <<REQ_RETRIES, method, h_i, last_err, net_log>>
    /\ UNCHANGED sigvars
    /\ UNCHANGED watchvars
    /\ UNCHANGED restvars

NextHttp == HttpAttempt \/ HttpSleep \/ HttpRaise

SpecHttp == InitHttp /\ [][NextHttp]_vars

(***************************************************************************)
(* Signal evaluator.  Closes are prices, hence positive.                   *)
(***************************************************************************)
volume_spike_nobase(h) ==
    LET vol == h.Volume
        n == Len(vol)
    IN  IF n < 12
        THEN [spike |-> FALSE, last |-> 0, base_x10 |-> 0]
        ELSE LET last == vol[n]
                 base_x10 == SumSeq(Slice(vol, n - 10, n - 1))
             IN  [spike |-> 10 * last >= VOL_SPIKE_MULT * base_x10,
                  last |-> last, base_x10 |-> base_x10]

volume_spike(h) ==
    LET vol == h.Volume
        n == Len(vol)
    IN  IF n < 12
        THEN [spike |-> FALSE, last |-> 0, base_x10 |-> 0]
        ELSE LET last == vol[n]
                 base_x10 == SumSeq(Slice(vol, n - 10, n - 1))
             IN  IF base_x10 <= 0
                 THEN [spike |-> FALSE, last |-> last, base_x10 |-> base_x10]
                 ELSE [spike |-> 10 * last >= VOL_SPIKE_MULT * base_x10,
                       last |-> last, base_x10 |-> base_x10]

price_move_abs(h) ==
    LET close == h.Close
        n == Len(close)
    IN  IF n < 2
        THEN [move |-> FALSE, pct_num |-> 0, pct_den |-> 1]
        ELSE LET num == 100 * (close[n] - close[n - 1])
                 den == close[n - 1]
             IN  [move |-> (IF num < 0 THEN -num ELSE num) >= PRICE_MOVE_PCT * den, pct_num |-> num, pct_den |-> den]

price_move(h) ==
    LET close == h.Close
        n == Len(close)
    IN  IF n < 2
        THEN [move |-> FALSE, pct_num |-> 0, pct_den |-> 1]
        ELSE LET num == 100 * (close[n] - close[n - 1])
                 den == close[n - 1]
             IN  [move |-> num >= PRICE_MOVE_PCT * den, pct_num |-> num, pct_den |-> den]

in_price_range(h) ==
    LET last_close == h.Close[Len(h.Close)]
    IN  [in_rng |-> PRICE_MIN <= last_close /\ last_close <= PRICE_MAX, last_close |-> last_close]

analyze_ticker_nogate(h, nyf, fil) ==
    IF h.kind = "none" THEN None
    ELSE IF h.Close = <<>> THEN [kind |-> "raise", error |-> "IndexError"]
    ELSE
        LET rng == in_price_range(h)
            vs == volume_spike(h)
            pm == price_move(h)
            news_total == nyf + fil
            hit == vs.spike \/ pm.move \/ news_total >= NEWS_MIN
        IN  IF ~hit THEN None
            ELSE [kind |-> "signal",
                  price |-> rng.last_close,
                  vol_spike |-> vs.spike,
                  vol_last |-> vs.last,
                  vol_base |-> vs.base_x10 \div 10,
                  pct_num |-> pm.pct_num,
                  pct_den |-> pm.pct_den,
                  news_24h |-> news_total,
                  news_yf |-> nyf,
                  filings_24h |-> fil]

analyze_ticker(h, nyf, fil) ==
    IF h.kind = "none" THEN None
    ELSE IF h.Close = <<>> THEN [kind |-> "raise", error |-> "IndexError"]
    ELSE
        LET rng == in_price_range(h)
        IN  IF ~rng.in_rng THEN None
            ELSE
                LET vs == volume_spike(h)
                    pm == price_move(h)
                    news_total == nyf + fil
                    hit == vs.spike \/ pm.move \/ news_total >= NEWS_MIN
                IN  IF ~hit THEN None
                    ELSE [kind |-> "signal",
                          price |-> rng.last_close,
                          vol_spike |-> vs.spike,
                          vol_last |-> vs.last,
                          vol_base |-> vs.base_x10 \div 10,
                          pct_num |-> pm.pct_num,
                          pct_den |-> pm.pct_den,
                          news_24h |-> news_total,
                          news_yf |-> nyf,
                          filings_24h |-> fil]

InitSignal ==
    /\ \E inp \in SignalInputs :
        /\ hist = inp.hist
        /\ news_yf = inp.news_yf
        /\ filings = inp.filings
    /\ called = "idle"
    /\ ret = [kind |-> "idle"]
    /\ HttpIdle
    /\ WatchIdle
    /\ RestIdle

CallVolumeSpike ==
    /\ called = "idle"
    /\ hist.kind = "hist"
    /\ called' = "volume_spike"
    /\ ret' = volume_spike(hist)
    /\ UNCHANGED <<hist, news_yf, filings>>
    /\ UNCHANGED httpvars
    /\ UNCHANGED watchvars
    /\ UNCHANGED restvars

CallPriceMove ==
    /\ called = "idle"
    /\ hist.kind = "hist"
    /\ called' = "price_move"
    /\ ret' = price_move(hist)
    /\ UNCHANGED <<hist, news_yf, filings>>
    /\ UNCHANGED httpvars
    /\ UNCHANGED watchvars
    /\ UNCHANGED restvars

CallAnalyzeTicker ==
    /\ called = "idle"
    /\ called' = "analyze_ticker"
    /\ ret' = analyze_ticker(hist, news_yf, filings)
    /\ UNCHANGED <<hist, news_yf, filings>>
    /\ UNCHANGED httpvars
    /\ UNCHANGED watchvars
    /\ UNCHANGED restvars

NextSignal == CallVolumeSpike \/ CallPriceMove \/ CallAnalyzeTicker

SpecSignal == InitSignal /\ [][NextSignal]_vars

(***************************************************************************)
(* Ticker extraction, one token at a time: what each source's rule         *)
(* contributes to the union for a token found in its answer.               *)
(***************************************************************************)
MaxTokenLen == 6

\* "b", ".", "U", "W"
TokenChars == {98, 46, 85, 87}

Tokens == SeqsUpTo(TokenChars, MaxTokenLen)

InitExtract ==
    /\ x_token \in Tokens
    /\ x_source = "none"
    /\ x_out = None
    /\ SignalIdle
    /\ HttpIdle
    /\ WatchIdle
    /\ RaceIdle
    /\ TgIdle
    /\ SpacIdle
    /\ MainIdle

ExtractNasdaq ==
    /\ x_source = "none"
    /\ x_source' = "nasdaq"
    /\ x_out' = [kind |-> "set", tickers |-> fetch_nasdaq_ipos(Answer({x_token}))]
    /\ UNCHANGED <<x_token, sigvars, httpvars, watchvars, racevars, tgvars, spacvars, mainvars>>

ExtractStockAnalysis ==
    /\ x_source = "none"
    /\ x_source' = "stockanalysis"
    /\ x_out' = [kind |-> "set", tickers |-> fetch_stockanalysis_ipos(Answer({x_token}))]
    /\ UNCHANGED <<x_token, sigvars, httpvars, watchvars, racevars, tgvars, spacvars, mainvars>>

ExtractSec ==
    /\ x_source = "none"
    /\ x_source' = "sec"
    /\ x_out' = [kind |-> "set", tickers |-> fetch_sec_spinoffs(Answer({x_token}))]
    /\ UNCHANGED <<x_token, sigvars, httpvars, watchvars, racevars, tgvars, spacvars, mainvars>>

NextExtract == ExtractNasdaq \/ ExtractStockAnalysis \/ ExtractSec

SpecExtract == InitExtract /\ [][NextExtract]_vars

(***************************************************************************)
(* Alert dispatch: tg_send of catalyst_watch.py and tg_send of             *)
(* spac_options.py.  A call returns what it adds to the local log and to   *)
(* the requests sent, and whether it raised.                               *)
(***************************************************************************)
MaxSends == 2

Texts == {"text1", "text2"}

\* what requests.post does: a response with a status code, or an exception
DeliveryOutcomes ==
    {[kind |-> "status", code |-> 200],
     [kind |-> "status", code |-> 403],
     [kind |-> "exc", code |-> 0]}

LogRecord(level, marker, text) == [level |-> level, marker |-> marker, text |-> text]

\* "if not TELEGRAM_BOT_TOKEN or not TELEGRAM_CHAT_ID"
TgMock == ~TELEGRAM_BOT_TOKEN \/ ~TELEGRAM_CHAT_ID

\* catalyst_watch.tg_send: the response of requests.post is not looked at
tg_send_catalyst(text, o) ==
    IF TgMock
    THEN [raised |-> FALSE, posts |-> <<>>,
          log |-> <<LogRecord("info", "[TG MOCK]", text)>>]
    ELSE [raised |-> FALSE, posts |-> <<[text |-> text, outcome |-> o]>>,
          log |-> IF o.kind = "exc"
                  THEN <<LogRecord("warning", "TG send error", text)>>
                  ELSE <<>>]

\* spac_options.tg_send: a status other than 200 is logged as a warning
tg_send_spac(text, o) ==
    IF TgMock
    THEN [raised |-> FALSE, posts |-> <<>>,
          log |-> <<LogRecord("info", "[TG MOCK]", text)>>]
    ELSE [raised |-> FALSE, posts |-> <<[text |-> text, outcome |-> o]>>,
          log |-> IF o.kind = "exc"
                  THEN <<LogRecord("warning", "TG send error", text)>>
                  ELSE IF o.code # 200
                       THEN <<LogRecord("warning", "TG send failed", text)>>
                       ELSE <<>>]

InitTg ==
    /\ TELEGRAM_BOT_TOKEN \in BOOLEAN
    /\ TELEGRAM_CHAT_ID \in BOOLEAN
    /\ tg_calls = <<>>
    /\ tg_posts = <<>>
    /\ tg_log = <<>>
    /\ SignalIdle
    /\ HttpIdle
    /\ WatchIdle
    /\ RaceIdle
    /\ ExtractIdle
    /\ SpacIdle
    /\ MainIdle

TgCall(module, r, text, o) ==
    /\ tg_calls' = Append(tg_calls, [module |-> module, text |-> text, outcome |-> o,
                                     raised |-> r.raised])
    /\ tg_posts' = tg_posts \o r.posts
    /\ tg_log' = tg_log \o r.log
    /\ UNCHANGED <<TELEGRAM_BOT_TOKEN, TELEGRAM_CHAT_ID>>
    /\ UNCHANGED <<sigvars, httpvars, watchvars, racevars, extractvars, spacvars, mainvars>>

TgSendCatalyst ==
    /\ Len(tg_calls) < MaxSends
    /\ \E text \in Texts, o \in DeliveryOutcomes :
            TgCall("catalyst_watch", tg_send_catalyst(text, o), text, o)

TgSendSpac ==
    /\ Len(tg_calls) < MaxSends
    /\ \E text \in Texts, o \in DeliveryOutcomes :
            TgCall("spac_options", tg_send_spac(text, o), text, o)

NextTg == TgSendCatalyst \/ TgSendSpac

SpecTg == InitTg /\ [][NextTg]_vars

(***************************************************************************)
(* Option monitor (spac_options.py).                                       *)
(*                                                                         *)
(* Units.  Prices are in cents.  The 30-day average volume is carried as   *)
(* the sum and the number of its bars.  An EMA is carried exactly, as an   *)
(* integer multiple of 1/EmaScale; the doubles of the source differ from   *)
(* it by rounding in the last place on some sequences of volumes, and on   *)
(* the volumes enumerated below the spike comparison of the source and     *)
(* the exact one decide alike.  json.dumps / json.loads return the values  *)
(* that occur in the state map (booleans, None, finite floats, lists of    *)
(* strings) as they were, so the blob holds the map itself.                *)
(***************************************************************************)
\* the default of WATCHLIST
WATCHLIST == <<"IPOF", "KVSA">>
\* PRICE_MIN, PRICE_MAX of spac_options.py (9.0, 11.0)
SPAC_PRICE_MIN == 900
SPAC_PRICE_MAX == 1100
AVG_VOL_MAX == 500000
NEAREST_EXPIRIES_TO_CHECK == 2
SPIKE_MULTIPLIER == 3
\* EMA_ALPHA (0.2) in hundredths
EMA_ALPHA == 20

MaxRuns == 2

\* an EMA e is carried as e * EmaScale
EmaScale == 5 ^ MaxRuns

Ema(x) == [kind |-> "float", x |-> x]

\* ---- what the market data service answers ----
Bars(c, v) == [kind |-> "ok", Close |-> <<1000, c>>, Volume |-> <<500000, v>>]

NoHistory == [kind |-> "empty"]

HistoryError == [kind |-> "error"]

Chain(c, p) == [ok |-> TRUE, calls_volume |-> c, puts_volume |-> p]

ChainError == [ok |-> FALSE, calls_volume |-> 0, puts_volume |-> 0]

\* t.options and, per expiry, t.option_chain(expiry)
Options(e, ch) == [kind |-> "ok", options |-> e, chains |-> ch]

OptionsError == [kind |-> "raise", options |-> <<>>, chains |-> <<>>]

NotAsked == [kind |-> "unasked", options |-> <<>>, chains |-> <<>>]

OptionsAnswers ==
    {OptionsError,
     Options(<<>>, <<>>),
     Options(<<"exp1">>, <<ChainError>>),
     Options(<<"exp1">>, <<Chain(1, 1)>>),
     Options(<<"exp1">>, <<Chain(100, 0)>>),
     Options(<<"exp1">>, <<Chain(100, 100)>>),
     Options(<<"exp1">>, <<Chain(200, 100)>>),
     Options(<<"exp1", "exp2", "exp3">>, <<Chain(100, 0), ChainError, Chain(200, 100)>>),
     Options(<<"exp1", "exp2", "exp3">>, <<Chain(100, 100), Chain(100, 0), Chain(200, 100)>>)}

Delivered == [kind |-> "status", code |-> 200]

Answers(h, o, d, audit) == [hist |-> h, options |-> o, delivery |-> d, audit_ok |-> audit]

\* the first ticker of the watchlist meets the whole range of answers, the
\* others a part of it
MarketAnswers(ticker) ==
    IF ticker = WATCHLIST[1]
    THEN {Answers(h, NotAsked, Delivered, TRUE) :
              h \in {NoHistory, HistoryError, Bars(899, 500000), Bars(1101, 500000),
                     Bars(1000, 500002)}}
         \cup {Answers(Bars(900, 500000), o, Delivered, TRUE) : o \in OptionsAnswers}
         \cup {Answers(Bars(1100, 500000), Options(<<>>, <<>>), Delivered, TRUE)}
         \cup {Answers(Bars(900, 500000), Options(<<"exp1">>, <<Chain(200, 100)>>), d, FALSE) :
                  d \in DeliveryOutcomes \ {Delivered}}
    ELSE {Answers(NoHistory, NotAsked, Delivered, TRUE),
          Answers(Bars(1101, 500000), NotAsked, Delivered, TRUE)}
         \cup {Answers(Bars(900, 500000), o, Delivered, TRUE) :
                  o \in {OptionsError, Options(<<>>, <<>>),
                         Options(<<"exp1">>, <<Chain(100, 0)>>)}}

\* ---- market data helpers ----
\* raises without history; else (last_close, avg_vol), avg_vol as sum / n
get_price_and_avg_volume(h) ==
    IF h.kind # "ok" \/ h.Close = <<>>
    THEN [raised |-> TRUE, price |-> 0, avg_vol |-> [sum |-> 0, n |-> 1]]
    ELSE [raised |-> FALSE,
          price |-> h.Close[Len(h.Close)],
          avg_vol |-> IF h.Volume = <<>> THEN [sum |-> 0, n |-> 1]
                      ELSE [sum |-> SumSeq(h.Volume), n |-> Len(h.Volume)]]

\* t.options raising reaches the caller; a chain that cannot be loaded is skipped
get_options_snapshot(o, nearest_n) ==
    IF o.kind = "raise"
    THEN [raised |-> TRUE, has_options |-> FALSE, expiries |-> <<>>,
          total_option_volume |-> 0, by_expiry |-> {}]
    ELSE LET checked == {k \in 1..Len(o.options) : k <= nearest_n /\ o.chains[k].ok}
             vol(k) == o.chains[k].calls_volume + o.chains[k].puts_volume
             Total[K \in SUBSET checked] ==
                 IF K = {} THEN 0
                 ELSE LET k == CHOOSE k \in K : TRUE IN vol(k) + Total[K \ {k}]
         IN  [raised |-> FALSE,
              has_options |-> Len(o.options) > 0,
              expiries |-> o.options,
              total_option_volume |-> Total[checked],
              by_expiry |-> {o.options[k] : k \in checked}]

\* the gate as it would be if it looked at the price only
is_quiet_spac_priceonly(price, avg_vol) ==
    SPAC_PRICE_MIN <= price /\ price <= SPAC_PRICE_MAX

\* (PRICE_MIN <= price <= PRICE_MAX) and (avg_vol <= AVG_VOL_MAX)
is_quiet_spac(price, avg_vol) ==
    /\ SPAC_PRICE_MIN <= price /\ price <= SPAC_PRICE_MAX
    /\ avg_vol.sum <= AVG_VOL_MAX * avg_vol.n

\* ---- ticker-state store ----
\* the map of the blob; the default without a bucket, when the store cannot
\* be reached (the exception is caught) and when the blob is missing
gcs_load_json(bucket, store_ok, default) ==
    IF ~bucket \/ ~store_ok \/ ~state_blob.exists
    THEN [raised |-> FALSE, value |-> default]
    ELSE [raised |-> FALSE, value |-> state_blob.map]

\* the save as it would be if it merged the map into the one the blob holds
gcs_save_json_merge(bucket, store_ok, obj) ==
    IF ~bucket \/ ~store_ok
    THEN [raised |-> FALSE, blob |-> state_blob, wrote |-> FALSE]
    ELSE [raised |-> FALSE, wrote |-> TRUE,
          blob |-> [exists |-> TRUE,
                    map |-> [t \in DOMAIN state_blob.map \cup DOMAIN obj |->
                                IF t \in DOMAIN obj THEN obj[t] ELSE state_blob.map[t]]]]

\* overwrites the blob with the whole map; without a bucket, and when the
\* store cannot be reached (the exception is caught), nothing is written
gcs_save_json(bucket, store_ok, obj) ==
    IF ~bucket \/ ~store_ok
    THEN [raised |-> FALSE, blob |-> state_blob, wrote |-> FALSE]
    ELSE [raised |-> FALSE, blob |-> [exists |-> TRUE, map |-> obj], wrote |-> TRUE]

\* appends to the day's audit blob of the ticker; every exception is caught
gcs_append_daily_log(bucket, store_ok) ==
    [raised |-> FALSE, appended |-> bucket /\ store_ok]

load_state(bucket, store_ok) == gcs_load_json(bucket, store_ok, EmptyMap)

save_state(bucket, store_ok, st) == gcs_save_json(bucket, store_ok, st)

\* ---- process_ticker ----
DefaultNode ==
    [had_options_before |-> FALSE, known_expiries |-> <<>>,
     option_volume_ema |-> None, last_alert_ts |-> None]

\* state.get(ticker, {...})
NodeOf(st, ticker) == IF ticker \in DOMAIN st THEN st[ticker] ELSE DefaultNode

\* state[ticker] = node
Put(st, ticker, node) ==
    [t \in DOMAIN st \cup {ticker} |-> IF t = ticker THEN node ELSE st[t]]

\* the first-options branch as it would be if it recorded the expiries only
MarkOptions_expiriesonly(node, expiries_now) ==
    [node EXCEPT !.known_expiries = expiries_now]

\* node["had_options_before"] = True; node["known_expiries"] = expiries_now
MarkOptions(node, expiries_now) ==
    [node EXCEPT !.had_options_before = TRUE, !.known_expiries = expiries_now]

\* the update with the two weights exchanged
NewEma_exchanged(prev_ema, total_opt_vol_now) ==
    IF prev_ema.kind = "None"
    THEN Ema(total_opt_vol_now * EmaScale)
    ELSE Ema(((100 - EMA_ALPHA) * total_opt_vol_now * EmaScale
              + EMA_ALPHA * prev_ema.x) \div 100)

\* float(total) if prev_ema is None else EMA_ALPHA * total + (1 - EMA_ALPHA) * prev_ema
NewEma(prev_ema, total_opt_vol_now) ==
    IF prev_ema.kind = "None"
    THEN Ema(total_opt_vol_now * EmaScale)
    ELSE Ema((EMA_ALPHA * total_opt_vol_now * EmaScale
              + (100 - EMA_ALPHA) * prev_ema.x) \div 100)

\* the comparison as it would be against the EMA updated in the same cycle
IsSpike_updated(prev_ema, total_opt_vol_now) ==
    /\ prev_ema.kind # "None"
    /\ total_opt_vol_now > 0
    /\ LET e == NewEma(prev_ema, total_opt_vol_now).x
       IN  total_opt_vol_now * EmaScale
               >= SPIKE_MULTIPLIER * (IF e > EmaScale THEN e ELSE EmaScale)

\* prev_ema is not None and total > 0 and total >= SPIKE_MULTIPLIER * max(prev_ema, 1.0)
IsSpike(prev_ema, total_opt_vol_now) ==
    /\ prev_ema.kind # "None"
    /\ total_opt_vol_now > 0
    /\ total_opt_vol_now * EmaScale
           >= SPIKE_MULTIPLIER * (IF prev_ema.x > EmaScale THEN prev_ema.x ELSE EmaScale)

Event(kind, ticker, sent) == [kind |-> kind, ticker |-> ticker, raised |-> sent.raised]

\* the new state map, the events handed to tg_send, whether an exception left
\* the function, and how far it got
process_ticker(st, ticker, a) ==
    LET node == NodeOf(st, ticker)
        pv == get_price_and_avg_volume(a.hist)
    IN  IF pv.raised
        THEN [state |-> Put(st, ticker, node), events |-> <<>>, raised |-> FALSE,
              step |-> "no_price", snapshots |-> 0, logged |-> FALSE]
        ELSE IF ~is_quiet_spac(pv.price, pv.avg_vol)
        THEN [state |-> Put(st, ticker, node), events |-> <<>>, raised |-> FALSE,
              step |-> "not_quiet", snapshots |-> 0, logged |-> FALSE]
        ELSE
        LET snapshot == get_options_snapshot(a.options, NEAREST_EXPIRIES_TO_CHECK)
        IN  IF snapshot.raised
            THEN [state |-> st, events |-> <<>>, raised |-> TRUE,
                  step |-> "snapshot_raised", snapshots |-> 1, logged |-> FALSE]
            ELSE
            LET total_opt_vol_now == snapshot.total_option_volume
                first == snapshot.has_options /\ ~node.had_options_before
                node1 == IF first THEN MarkOptions(node, snapshot.expiries) ELSE node
                prev_ema == node1.option_volume_ema
                new_ema == NewEma(prev_ema, total_opt_vol_now)
                node2 == [node1 EXCEPT !.option_volume_ema = new_ema]
                is_spike == IsSpike(prev_ema, total_opt_vol_now)
                events == (IF first
                           THEN <<Event("new_options", ticker,
                                        tg_send_spac("new_options", a.delivery))>>
                           ELSE <<>>)
                          \o (IF is_spike
                              THEN <<Event("spike", ticker,
                                           tg_send_spac("spike", a.delivery))>>
                              ELSE <<>>)
                log == gcs_append_daily_log(SPAC_GCS_BUCKET, a.audit_ok)
                raised == log.raised \/ \E k \in 1..Len(events) : events[k].raised
            \* node is the dict state holds when the ticker is known, so what was
            \* assigned to it stays even if "state[ticker] = node" is not reached
            IN  [state |-> IF raised /\ ticker \notin DOMAIN st
                           THEN st ELSE Put(st, ticker, node2),
                 events |-> events, raised |-> raised,
                 step |-> "evaluated", snapshots |-> 1, logged |-> log.appended]

\* ---- the main block: load_state, the loop over WATCHLIST, save_state ----
SpacTickers == {WATCHLIST[k] : k \in 1..Len(WATCHLIST)}

\* the option monitor before its first run
SpacReady ==
    /\ SPAC_GCS_BUCKET \in BOOLEAN
    /\ state_blob = NoStateBlob
    /\ state = EmptyMap
    /\ s_pc = "idle"
    /\ s_i = 0
    /\ s_runs = 0
    /\ s_io = [loads |-> 0, saves |-> 0]
    /\ cycle = NoCycle
    /\ visited = <<>>
    /\ blob_before = NoStateBlob
    /\ opt_alerts = [t \in SpacTickers |-> 0]
    /\ carried = TRUE

InitSpac ==
    /\ SpacReady
    /\ SignalIdle
    /\ HttpIdle
    /\ WatchIdle
    /\ RaceIdle
    /\ ExtractIdle
    /\ TgIdle
    /\ MainIdle

\* where the main block stands after a process_ticker call, as it would be
\* without the try / except around the call
AfterTicker_uncaught(i, raised) ==
    IF raised THEN "crashed"
    ELSE IF i < Len(WATCHLIST) THEN "loop" ELSE "save"

\* "try: process_ticker(tkr, state) except Exception: log": the loop goes on
\* to the next ticker, and to save_state after the last one
AfterTicker(i, raised) ==
    IF i < Len(WATCHLIST) THEN "loop" ELSE "save"

\* the process starts (a scheduler starts one run at a time): state = load_state()
SpacStart ==
    /\ s_pc \in {"idle", "done", "killed", "crashed"}
    /\ s_runs < MaxRuns
    /\ \E store_ok \in BOOLEAN :
        LET r == load_state(SPAC_GCS_BUCKET, store_ok)
        IN  /\ state' = r.value
            /\ carried' = (carried /\ r.value = state)
            /\ s_pc' = IF r.raised THEN "crashed" ELSE AfterTicker(0, FALSE)
    /\ s_i' = 0
    /\ s_runs' = s_runs + 1
    /\ s_io' = [loads |-> 1, saves |-> 0]
    /\ cycle' = NoCycle
    /\ visited' = <<>>
    /\ blob_before' = state_blob
    /\ UNCHANGED <<SPAC_GCS_BUCKET, state_blob, opt_alerts>>
    /\ UNCHANGED <<sigvars, httpvars, watchvars, racevars, extractvars, tgvars, mainvars>>

\* one iteration of "for tkr in WATCHLIST": process_ticker under try / except, then the sleep
SpacProcess ==
    /\ s_pc = "loop"
    /\ LET tkr == WATCHLIST[s_i + 1]
       IN  \E a \in MarketAnswers(tkr) :
            LET r == process_ticker(state, tkr, a)
                news == Len(SelectSeq(r.events, LAMBDA e : e.kind = "new_options"))
            IN  /\ state' = r.state
                /\ cycle' = [kind |-> "call", ticker |-> tkr, answer |-> a,
                             known |-> tkr \in DOMAIN state, before |-> NodeOf(state, tkr),
                             events |-> r.events, raised |-> r.raised, step |-> r.step,
                             snapshots |-> r.snapshots, logged |-> r.logged]
                /\ visited' = Append(visited, tkr)
                /\ opt_alerts' = [opt_alerts EXCEPT ![tkr] = @ + news]
                /\ s_pc' = AfterTicker(s_i + 1, r.raised)
    /\ s_i' = s_i + 1
    /\ UNCHANGED <<SPAC_GCS_BUCKET, state_blob, s_runs, s_io, blob_before, carried>>
    /\ UNCHANGED <<sigvars, httpvars, watchvars, racevars, extractvars, tgvars, mainvars>>

\* save_state(state) after the loop
SpacSave ==
    /\ s_pc = "save"
    /\ \E store_ok \in BOOLEAN :
        LET r == save_state(SPAC_GCS_BUCKET, store_ok, state)
        IN  /\ state_blob' = r.blob
            /\ s_io' = [s_io EXCEPT !.saves = @ + 1]
            /\ s_pc' = IF r.raised THEN "crashed" ELSE "done"
    /\ UNCHANGED <<SPAC_GCS_BUCKET, state, s_i, s_runs, cycle, visited, blob_before,
                   opt_alerts, carried>>
    /\ UNCHANGED <<sigvars, httpvars, watchvars, racevars, extractvars, tgvars, mainvars>>

\* the kill as it would be if the process wrote its map on the way out
SpacKill_flush ==
    /\ s_pc \in {"loop", "save"}
    /\ s_pc' = "killed"
    /\ state_blob' = IF SPAC_GCS_BUCKET THEN [exists |-> TRUE, map |-> state] ELSE state_blob
    /\ UNCHANGED <<SPAC_GCS_BUCKET, state, s_i, s_runs, s_io, cycle, visited, blob_before,
                   opt_alerts, carried>>
    /\ UNCHANGED <<sigvars, httpvars, watchvars, racevars, extractvars, tgvars, mainvars>>

\* the process is killed from outside, before save_state has written
SpacKill ==
    /\ s_pc \in {"loop", "save"}
    /\ s_pc' = "killed"
    /\ UNCHANGED <<SPAC_GCS_BUCKET, state_blob, state, s_i, s_runs, s_io, cycle, visited,
                   blob_before, opt_alerts, carried>>
    /\ UNCHANGED <<sigvars, httpvars, watchvars, racevars, extractvars, tgvars, mainvars>>

NextSpac == SpacStart \/ SpacProcess \/ SpacSave \/ SpacKill

SpecSpac == InitSpac /\ [][NextSpac]_vars

(***************************************************************************)
(* Two processes of the option monitor on the same ticker-state blob.      *)
(* Nothing in spac_options.py keeps a second process from starting while   *)
(* the first is running (no lock, no generation check on the upload), so   *)
(* the steps of the two main blocks interleave freely.                     *)
(***************************************************************************)
RaceOthersIdle ==
    /\ state = EmptyMap
    /\ s_pc = "off"
    /\ s_i = 0
    /\ s_runs = 0
    /\ s_io = [loads |-> 0, saves |-> 0]
    /\ cycle = NoCycle
    /\ visited = <<>>
    /\ blob_before = NoStateBlob
    /\ opt_alerts = EmptyMap
    /\ carried = TRUE

InitRace ==
    /\ SPAC_GCS_BUCKET = TRUE
    /\ state_blob = NoStateBlob
    /\ r_pc = [r \in Runs |-> "idle"]
    /\ r_i = [r \in Runs |-> 0]
    /\ r_state = [r \in Runs |-> EmptyMap]
    /\ r_loaded = [r \in Runs |-> EmptyMap]
    /\ r_log = <<>>
    /\ RaceOthersIdle
    /\ SignalIdle
    /\ HttpIdle
    /\ WatchIdle
    /\ ExtractIdle
    /\ TgIdle
    /\ MainIdle

\* a process starts: state = load_state()
RaceStart ==
    /\ \E r \in Runs :
        /\ r_pc[r] = "idle"
        /\ \E store_ok \in BOOLEAN :
            LET res == load_state(SPAC_GCS_BUCKET, store_ok)
            IN  /\ r_state' = [r_state EXCEPT ![r] = res.value]
                /\ r_loaded' = [r_loaded EXCEPT ![r] = res.value]
                /\ r_pc' = [r_pc EXCEPT ![r] = AfterTicker(0, FALSE)]
                /\ r_log' = Append(r_log, [run |-> r, op |-> "load",
                                           ok |-> SPAC_GCS_BUCKET /\ store_ok])
    /\ UNCHANGED <<r_i, state_blob>>
    /\ UNCHANGED <<SPAC_GCS_BUCKET, state, s_pc, s_i, s_runs, s_io, cycle, visited,
                   blob_before, opt_alerts, carried>>
    /\ UNCHANGED <<sigvars, httpvars, watchvars, extractvars, tgvars, mainvars>>

\* one iteration of the loop of one of the processes
RaceProcess ==
    /\ \E r \in Runs :
        /\ r_pc[r] = "loop"
        /\ LET tkr == WATCHLIST[r_i[r] + 1]
           IN  \E a \in MarketAnswers(tkr) :
                LET res == process_ticker(r_state[r], tkr, a)
                IN  /\ r_state' = [r_state EXCEPT ![r] = res.state]
                    /\ r_pc' = [r_pc EXCEPT ![r] = AfterTicker(r_i[r] + 1, res.raised)]
        /\ r_i' = [r_i EXCEPT ![r] = @ + 1]
    /\ UNCHANGED <<r_loaded, r_log, state_blob>>
    /\ UNCHANGED <<SPAC_GCS_BUCKET, state, s_pc, s_i, s_runs, s_io, cycle, visited,
                   blob_before, opt_alerts, carried>>
    /\ UNCHANGED <<sigvars, httpvars, watchvars, extractvars, tgvars, mainvars>>

\* save_state(state) of one of the processes, after its loop
RaceSave ==
    /\ \E r \in Runs :
        /\ r_pc[r] = "save"
        /\ \E store_ok \in BOOLEAN :
            LET res == save_state(SPAC_GCS_BUCKET, store_ok, r_state[r])
            IN  /\ state_blob' = res.blob
                /\ r_pc' = [r_pc EXCEPT ![r] = "done"]
                /\ r_log' = Append(r_log, [run |-> r, op |-> "save", ok |-> res.wrote])
    /\ UNCHANGED <<r_i, r_state, r_loaded>>
    /\ UNCHANGED <<SPAC_GCS_BUCKET, state, s_pc, s_i, s_runs, s_io, cycle, visited,
                   blob_before, opt_alerts, carried>>
    /\ UNCHANGED <<sigvars, httpvars, watchvars, extractvars, tgvars, mainvars>>

NextRace == RaceStart \/ RaceProcess \/ RaceSave

SpecRace == InitRace /\ [][NextRace]_vars

(***************************************************************************)
(* The scan loops: main of catalyst_watch.py from the point where          *)
(* fetch_watchlist has returned, and the main block of spac_options.py.    *)
(***************************************************************************)
\* lines are rendered for hits[:60]
HITS_SHOWN == 60

\* lists fetch_watchlist returns: "AB", "B", "C"
WatchLists == {<<>>, <<<<65, 66>>>>, <<<<65, 66>>, <<66>>>>, <<<<65, 66>>, <<66>>, <<67>>>>}

\* what the market data service answers for a ticker of the loop: an
\* exception of get_hist, no history, a history without a close, one that
\* yields a signal, one in the band without a trigger, one outside the band
ScanInputs ==
    {[hist |-> [kind |-> "error"], news_yf |-> 0, filings |-> 0],
     [hist |-> [kind |-> "none"], news_yf |-> 0, filings |-> 0],
     [hist |-> [kind |-> "hist", Close |-> <<>>, Volume |-> <<>>], news_yf |-> 0, filings |-> 0],
     [hist |-> [kind |-> "hist", Close |-> <<1000>>, Volume |-> <<>>], news_yf |-> 1, filings |-> 0],
     [hist |-> [kind |-> "hist", Close |-> <<1000>>, Volume |-> <<>>], news_yf |-> 0, filings |-> 0],
     [hist |-> [kind |-> "hist", Close |-> <<2000>>, Volume |-> <<>>], news_yf |-> 0, filings |-> 0]}

\* "try: res = analyze_ticker(t) ... except Exception: log": the loop goes on
\* to the next ticker, and to the rendering after the last one
MainAfterTicker(i, raised) ==
    IF i < Len(watch) THEN "loop" ELSE "render"

\* main after "watch = fetch_watchlist()" and "hits = []"
MainReady ==
    /\ watch \in WatchLists
    /\ m_pc = MainAfterTicker(0, FALSE)
    /\ m_i = 0
    /\ hits = <<>>
    /\ m_visited = <<>>
    /\ m_last = None
    /\ m_alert = None

\* one of the two monitors runs
InitScan ==
    /\ TELEGRAM_CHAT_ID = TRUE
    /\ tg_calls = <<>>
    /\ tg_posts = <<>>
    /\ tg_log = <<>>
    /\ \/ MainReady /\ SpacIdle /\ TELEGRAM_BOT_TOKEN \in BOOLEAN
       \/ SpacReady /\ MainIdle /\ TELEGRAM_BOT_TOKEN = TRUE
    /\ SignalIdle
    /\ HttpIdle
    /\ WatchIdle
    /\ RaceIdle
    /\ ExtractIdle

\* one iteration of "for i, t in enumerate(watch, 1)", the sleep included
MainLoop ==
    /\ m_pc = "loop"
    /\ LET t == watch[m_i + 1]
       IN  \E inp \in ScanInputs :
            LET res == IF inp.hist.kind = "error"
                       THEN [kind |-> "raise", error |-> "get_hist"]
                       ELSE analyze_ticker(inp.hist, inp.news_yf, inp.filings)
            IN  /\ hits' = IF res.kind = "signal"
                           THEN Append(hits, [ticker |-> t, res |-> res])
                           ELSE hits
                /\ m_last' = [kind |-> "call", ticker |-> t, outcome |-> res.kind]
                /\ m_visited' = Append(m_visited, t)
                /\ m_pc' = MainAfterTicker(m_i + 1, res.kind = "raise")
    /\ m_i' = m_i + 1
    /\ UNCHANGED <<watch, m_alert>>
    /\ UNCHANGED <<sigvars, httpvars, watchvars, racevars, extractvars, tgvars, spacvars>>

\* after the loop: return when there is no hit, else render the lines and tg_send
MainRender ==
    /\ m_pc = "render"
    /\ IF hits = <<>>
       THEN /\ m_alert' = [kind |-> "none", tickers |-> <<>>, posts |-> 0]
            /\ m_pc' = "done"
       ELSE \E o \in DeliveryOutcomes :
            LET n == IF Len(hits) < HITS_SHOWN THEN Len(hits) ELSE HITS_SHOWN
                r == tg_send_catalyst("alert", o)
            IN  /\ m_alert' = [kind |-> "alert",
                               tickers |-> [k \in 1..n |-> hits[k].ticker],
                               posts |-> Len(r.posts)]
                /\ m_pc' = IF r.raised THEN "crashed" ELSE "done"
    /\ UNCHANGED <<watch, m_i, hits, m_visited, m_last>>
    /\ UNCHANGED <<sigvars, httpvars, watchvars, racevars, extractvars, tgvars, spacvars>>

\* a started run executes its next step
ScanStep == MainLoop \/ MainRender \/ SpacProcess \/ SpacSave

NextScan == MainLoop \/ MainRender \/ SpacStart \/ SpacProcess \/ SpacSave

SpecScan == InitScan /\ [][NextScan]_vars /\ WF_vars(ScanStep)

(***************************************************************************)
(* Claims about the signal evaluator (checked under SpecSignal).           *)
(***************************************************************************)
\* ten times the mean of the 10 bars immediately preceding the last bar
Baseline_x10(vol) == SumSeq(SubSeq(vol, Len(vol) - 10, Len(vol) - 1))

LastOf(s) == s[Len(s)]
PriorOf(s) == s[Len(s) - 1]

InBand(h) == Len(h.Close) > 0 /\ PRICE_MIN <= LastOf(h.Close) /\ LastOf(h.Close) <= PRICE_MAX

\* C7: analyze_ticker returns a CatalystSignal for a ticker with history if and
\* only if the last close is in [PRICE_MIN, PRICE_MAX] and at least one of the
\* volume spike flag, the price move flag and news_total >= NEWS_MIN holds; a
\* ticker priced outside the band (20.00 against [3, 15]) gives no signal.
C7_PriceGateAndAnyTrigger ==
    (called = "analyze_ticker" /\ hist.kind = "hist") =>
        /\ (ret.kind = "signal") <=>
                (/\ InBand(hist)
                 /\ \/ volume_spike(hist).spike
                    \/ price_move(hist).move
                    \/ news_yf + filings >= NEWS_MIN)
        /\ (Len(hist.Close) > 0 /\ LastOf(hist.Close) = 2000) => ret.kind # "signal"

C7_Witness ==
    /\ called = "analyze_ticker"
    /\ hist.kind = "hist"
    /\ Len(hist.Close) > 0
    /\ LastOf(hist.Close) = 2000
    /\ Len(hist.Volume) = 12
    /\ LastOf(hist.Volume) = 10000
    /\ Baseline_x10(hist.Volume) = 10000
    /\ news_yf + filings >= NEWS_MIN
    /\ ret = None

\* C8: with at least 11 volume bars the baseline is the mean of the 10 bars
\* before the last one and the spike flag is true exactly when baseline > 0
\* and last >= VOL_SPIKE_MULT x baseline (baseline 1000: 3000 spikes, 2999
\* does not).
C8_SpikeFromElevenBars ==
    (called = "volume_spike" /\ Len(hist.Volume) >= 11) =>
        LET last == LastOf(hist.Volume)
            b10 == Baseline_x10(hist.Volume)
        IN  /\ ret.spike <=> (b10 > 0 /\ 10 * last >= VOL_SPIKE_MULT * b10)
            /\ (b10 = 10000 /\ last = 3000) => ret.spike
            /\ (b10 = 10000 /\ last = 2999) => ~ret.spike

\* C9: for a series of fewer than 11 volume samples, or with a baseline <= 0,
\* volume_spike returns a false spike flag (and returns, it does not raise).
C9_NoSpikeOnShortOrZeroBaseline ==
    (/\ called = "volume_spike"
     /\ \/ Len(hist.Volume) < 11
        \/ Baseline_x10(hist.Volume) <= 0) =>
        ret.spike = FALSE

C9_Witness ==
    /\ called = "volume_spike"
    /\ Len(hist.Volume) = 12
    /\ Baseline_x10(hist.Volume) = 0
    /\ LastOf(hist.Volume) = 3000
    /\ ret.spike = FALSE

\* C10: price_move returns (false, 0%) for fewer than 2 closes; otherwise
\* pct = (close[-1]/close[-2] - 1) x 100 and the flag is true exactly when
\* pct >= PRICE_MOVE_PCT, so a fall never sets it; from 10.00, 10.80 sets the
\* flag and 10.79 does not.
C10_PriceMoveOneSided ==
    called = "price_move" =>
        IF Len(hist.Close) < 2
        THEN ret = [move |-> FALSE, pct_num |-> 0, pct_den |-> 1]
        ELSE LET c1 == LastOf(hist.Close)
                 c0 == PriorOf(hist.Close)
             IN  /\ ret.pct_den > 0
                 /\ ret.pct_num * c0 = 100 * (c1 - c0) * ret.pct_den
                 /\ ret.move <=> (ret.pct_num >= PRICE_MOVE_PCT * ret.pct_den)
                 /\ c1 < c0 => ~ret.move
                 /\ (c0 = 1000 /\ c1 = 1080) => ret.move
                 /\ (c0 = 1000 /\ c1 = 1079) => ~ret.move

C10_Witness ==
    /\ called = "price_move"
    /\ Len(hist.Close) >= 2
    /\ PriorOf(hist.Close) = 1000
    /\ LastOf(hist.Close) = 1080
    /\ ret.move = TRUE

(***************************************************************************)
(* Claims about fetch_watchlist (checked under Spec).                      *)
(***************************************************************************)
Elems(list) == {list[i] : i \in 1..Len(list)}

\* what a source contributes when it is asked and answers
Yield(src) ==
    CASE src = "nasdaq" -> fetch_nasdaq_ipos(upstream.nasdaq)
      [] src = "stockanalysis" -> fetch_stockanalysis_ipos(upstream.stockanalysis)
      [] src = "sec" -> fetch_sec_spinoffs(upstream.sec)

PrimaryYield ==
    IF NASDAQ_DISABLED \/ ~upstream.nasdaq.ok THEN {} ELSE Yield("nasdaq")

\* the first CAT_TEST_LIMIT entries of a list when a cap is set and exceeded
Capped(list) ==
    LET n == IF CAT_TEST_LIMIT > 0 /\ Len(list) > CAT_TEST_LIMIT THEN CAT_TEST_LIMIT ELSE Len(list)
    IN  SubSeq(list, 1, n)

\* C1 (as stated): when no source contributes a ticker, fetch_watchlist returns
\* exactly the last persisted snapshot, unchanged, and the empty list if none
\* was ever persisted.
C1_FallbackReturnsSnapshotUnchanged ==
    (pc = "done" /\ tickers = {}) => returned = [kind |-> "list", list |-> saved]

\* C1 (amended): when no source contributes a ticker, fetch_watchlist returns
\* the last persisted snapshot in its order, cut to its first CAT_TEST_LIMIT
\* tickers when a cap is configured and the snapshot is longer; it returns the
\* empty list if none was ever persisted or the snapshot cannot be loaded.
C1_FallbackReturnsLoadedSnapshot ==
    (pc = "done" /\ tickers = {}) =>
        returned = [kind |-> "list",
                    list |-> IF GCS_BUCKET /\ store_up THEN Capped(saved) ELSE <<>>]

C1_Witness ==
    /\ pc = "done"
    /\ tickers = {}
    /\ queried = {"nasdaq", "stockanalysis", "sec"}
    /\ store_up
    /\ CAT_TEST_LIMIT = 0
    /\ Len(saved) = 2
    /\ returned = [kind |-> "list", list |-> saved]

\* C2 (as stated): the persisted snapshot is overwritten only by a run whose
\* union is non-empty, after such a run it equals that run's union, and a run
\* whose union is empty leaves it unchanged.
C2_NonEmptyRunPersistsUnion ==
    [][/\ (blob' # blob \/ saved' # saved) => (pc = "persist" /\ tickers # {})
       /\ (pc = "persist" /\ pc' = "done" /\ tickers # {}) =>
            /\ Elems(saved') = tickers
            /\ Len(saved') = Cardinality(tickers)
            /\ blob'.exists
            /\ SplitLines(blob'.text) = saved'
       /\ (pc = "persist" /\ pc' = "done" /\ tickers = {}) =>
            (blob' = blob /\ saved' = saved)]_vars

\* C2 (amended): the persisted snapshot is overwritten only by a run whose
\* union is non-empty; after such a run, when a bucket is configured and the
\* write succeeds, it equals that run's whole union; a run whose union is
\* empty, that has no bucket or whose write fails leaves it unchanged.
C2_SuccessfulNonEmptyRunPersistsUnion ==
    [][/\ (blob' # blob \/ saved' # saved) => (pc = "persist" /\ tickers # {})
       /\ (pc = "persist" /\ pc' = "done" /\ tickers # {} /\ GCS_BUCKET /\ store_up) =>
            /\ Elems(saved') = tickers
            /\ Len(saved') = Cardinality(tickers)
            /\ blob'.exists
            /\ SplitLines(blob'.text) = saved'
       /\ (pc = "persist" /\ pc' = "done" /\ (tickers = {} \/ ~GCS_BUCKET \/ ~store_up)) =>
            (blob' = blob /\ saved' = saved)]_vars

C2_Witness ==
    /\ pc = "done"
    /\ Cardinality(tickers) = 2
    /\ Elems(saved) = tickers
    /\ SplitLines(blob.text) = saved
    /\ CAT_TEST_LIMIT = 1
    /\ returned.kind = "list"
    /\ Len(returned.list) = 1

\* C3: a run that repeats the previous one, with the sources and the store
\* answering as before and nothing else written to the store, leaves the
\* persisted snapshot as the previous run left it and returns the same list.
C3_RepeatedRunIdempotent ==
    (pc = "done" /\ prev.kind = "run") =>
        /\ blob = prev.blob
        /\ saved = prev.saved
        /\ returned = prev.returned

C3_Witness ==
    /\ pc = "done"
    /\ prev.kind = "run"
    /\ Cardinality(tickers) = 2
    /\ blob.exists
    /\ returned.kind = "list"
    /\ prev.blob = blob

\* C4: the secondary listing source is queried if and only if the primary one
\* yielded no ticker (a failed or disabled primary yields none and the run
\* goes on); a disabled primary is not queried at all.
C4_SecondaryIffPrimaryEmpty ==
    /\ pc \in {"sec", "persist", "done"} =>
            (("stockanalysis" \in queried) <=> (PrimaryYield = {}))
    /\ NASDAQ_DISABLED => "nasdaq" \notin queried
    /\ (pc \in {"stockanalysis", "sec", "persist", "done"} /\ ~NASDAQ_DISABLED) =>
            "nasdaq" \in queried

C4_Witness ==
    /\ pc = "done"
    /\ "nasdaq" \in queried
    /\ ~upstream.nasdaq.ok
    /\ "stockanalysis" \in queried
    /\ upstream.stockanalysis.ok
    /\ tickers # {}

\* C5: the regulatory source is queried in every run whatever the listing
\* sources did, and its failure removes nothing: the collected set is the
\* union of what each queried source that did not fail returned.
C5_SecAlwaysQueriedUnionKept ==
    pc \in {"persist", "done"} =>
        /\ "sec" \in queried
        /\ tickers = UNION {Yield(src) : src \in {q \in queried : upstream[q].ok}}

C5_Witness ==
    /\ pc = "persist"
    /\ "sec" \in queried
    /\ ~upstream.sec.ok
    /\ tickers # {}

(***************************************************************************)
(* Claims about the fetch client (checked under SpecHttp).                 *)
(***************************************************************************)
Requests == SelectSeq(net_log, LAMBDA e : e.ev = "request")

IsOk(o) == o.kind = "status" /\ o.code = 200

\* C6: http_get / http_post_json issue requests one at a time, stop at the
\* first attempt answered 200 and return that response, never issue more than
\* REQ_RETRIES requests, and when all REQ_RETRIES attempts fail raise the
\* failure of the last attempt; a non-200 status and a transport exception
\* are handled alike (each consumes one attempt and becomes last_err).
C6_BoundedRetry ==
    LET reqs == Requests
        n == Len(reqs)
    IN  /\ n <= REQ_RETRIES
        /\ \A k \in 1..n : reqs[k].attempt = k - 1
        /\ \A k \in 1..n : IsOk(reqs[k].outcome) => (k = n /\ h_pc = "returned")
        /\ h_pc = "returned" =>
                /\ n >= 1
                /\ IsOk(reqs[n].outcome)
                /\ h_ret = [kind |-> "response", status_code |-> 200, attempt |-> n - 1]
        /\ h_pc = "sleep" =>
                /\ n = h_i + 1
                /\ last_err = ErrorOf(reqs[n].outcome)
        /\ h_pc = "raised" =>
                /\ n = REQ_RETRIES
                /\ \A k \in 1..n : ~IsOk(reqs[k].outcome)
                /\ n >= 1 => h_ret = ErrorOf(reqs[n].outcome)

C6_Witness ==
    /\ h_pc = "raised"
    /\ REQ_RETRIES = 3
    /\ Len(Requests) = 3
    /\ Requests[1].outcome.kind = "exc"
    /\ Requests[2].outcome.kind = "status"
    /\ Requests[3].outcome.kind = "exc"
    /\ h_ret = ErrorOf(Requests[3].outcome)

(***************************************************************************)
(* Claims about the list fetch_watchlist returns (checked under Spec).     *)
(***************************************************************************)
Ascending(l) == \A k \in 1..(Len(l) - 1) : StrLess(l[k], l[k + 1])

\* C20: the list fetch_watchlist returns is in strictly ascending
\* lexicographic order (hence without duplicates); when the run collected
\* tickers it holds the smallest min(N, size) of them under a cap
\* CAT_TEST_LIMIT = N > 0 and all of them without a cap; and the snapshot the
\* run persisted is the whole collected list, whatever the cap.
C20_SortedAndCappedToPrefix ==
    (pc = "done" /\ returned.kind = "list") =>
        LET l == returned.list
            capped == CAT_TEST_LIMIT > 0 /\ Cardinality(tickers) > CAT_TEST_LIMIT
        IN  /\ Ascending(l)
            /\ tickers # {} =>
                    /\ Elems(l) \subseteq tickers
                    /\ Len(l) = IF capped THEN CAT_TEST_LIMIT ELSE Cardinality(tickers)
                    /\ \A t \in tickers \ Elems(l) : \A k \in 1..Len(l) : StrLess(l[k], t)
                    /\ (GCS_BUCKET /\ store_up) =>
                            /\ Ascending(saved)
                            /\ Elems(saved) = tickers
                            /\ Len(saved) = Cardinality(tickers)
                            /\ SplitLines(blob.text) = saved
            /\ (tickers = {} /\ ~(GCS_BUCKET /\ store_up)) => l = <<>>
            /\ (tickers = {} /\ GCS_BUCKET /\ store_up) =>
                    /\ Elems(l) \subseteq Elems(saved)
                    /\ Len(l) = IF CAT_TEST_LIMIT > 0 /\ Len(saved) > CAT_TEST_LIMIT
                                 THEN CAT_TEST_LIMIT ELSE Len(saved)
                    /\ \A t \in Elems(saved) \ Elems(l) :
                            \A k \in 1..Len(l) : StrLess(l[k], t)

C20_Witness ==
    /\ pc = "done"
    /\ Cardinality(tickers) = 3
    /\ CAT_TEST_LIMIT = 1
    /\ returned = [kind |-> "list", list |-> <<Sorted(tickers)[1]>>]
    /\ Len(saved) = 3
    /\ Ascending(saved)

(***************************************************************************)
(* Claims about ticker extraction (checked under SpecExtract).             *)
(***************************************************************************)
\* the token without one trailing ".U" or ".W"
StripSuffix(t) ==
    IF Len(t) >= 2 /\ SubSeq(t, Len(t) - 1, Len(t)) \in {<<46, 85>>, <<46, 87>>}
    THEN SubSeq(t, 1, Len(t) - 2)
    ELSE t

IsTickerShape(b) == Len(b) \in 1..5 /\ \A k \in 1..Len(b) : b[k] \in 65..90

\* C19: a token is accepted if and only if, upper-cased and with a trailing
\* unit (.U) or warrant (.W) suffix stripped, it is 1 to 5 alphabetic
\* characters, and then contributes exactly that base symbol; every other
\* token contributes nothing; every contributed ticker has shape [A-Z]{1,5}.
C19_TrailingSuffixAcceptance ==
    x_out.kind = "set" =>
        LET base == StripSuffix(Upper(x_token))
        IN  /\ x_out.tickers = IF IsTickerShape(base) THEN {base} ELSE {}
            /\ \A b \in x_out.tickers : IsTickerShape(b)

(***************************************************************************)
(* Claims about alert dispatch (checked under SpecTg).                     *)
(***************************************************************************)
\* C18: tg_send never raises; a transport exception and a response other
\* than 200 are each logged and swallowed; without a bot token or a chat id
\* no request is sent and the text goes to the local log with the mock
\* marker, which no real delivery attempt writes.
C18_DispatchNeverRaisesAndLogsFailures ==
    [][tg_calls' # tg_calls =>
        LET c == tg_calls'[Len(tg_calls')]
            posts == SubSeq(tg_posts', Len(tg_posts) + 1, Len(tg_posts'))
            log == SubSeq(tg_log', Len(tg_log) + 1, Len(tg_log'))
            failed == c.outcome.kind = "exc" \/ c.outcome.code # 200
        IN  /\ ~c.raised
            /\ TgMock =>
                    /\ posts = <<>>
                    /\ log = <<LogRecord("info", "[TG MOCK]", c.text)>>
            /\ ~TgMock =>
                    /\ posts = <<[text |-> c.text, outcome |-> c.outcome]>>
                    /\ \A k \in 1..Len(log) : log[k].marker # "[TG MOCK]"
                    /\ failed => (Len(log) = 1 /\ log[1].level = "warning")
                    /\ ~failed => log = <<>>]_vars

(***************************************************************************)
(* Claims about the option monitor (checked under SpecSpac).               *)
(***************************************************************************)
\* whether the most recent process_ticker call handed tg_send an event of the kind
Emitted(kind) ==
    cycle.kind = "call" /\ \E k \in 1..Len(cycle.events) : cycle.events[k].kind = kind

\* the gate, from the history the call was answered with
PassedGate ==
    /\ cycle.kind = "call"
    /\ cycle.answer.hist.kind = "ok"
    /\ LET h == cycle.answer.hist
           last_close == h.Close[Len(h.Close)]
       IN  /\ SPAC_PRICE_MIN <= last_close
           /\ last_close <= SPAC_PRICE_MAX
           /\ SumSeq(h.Volume) <= AVG_VOL_MAX * Len(h.Volume)

\* the call got as far as the EMA update: gate passed, snapshot obtained
Evaluated == PassedGate /\ cycle.answer.options.kind = "ok"

CurrentVolume ==
    get_options_snapshot(cycle.answer.options, NEAREST_EXPIRIES_TO_CHECK).total_option_volume

PriorEma == cycle.before.option_volume_ema

\* C11: a volume spike event is emitted in a cycle if and only if the ticker
\* passed the quiet gate (and its snapshot was obtained), a prior EMA exists
\* in its state, the current total option volume is positive and
\* current >= SPIKE_MULTIPLIER * max(prior EMA, 1.0), the prior EMA being the
\* one stored before the cycle; it is never emitted on the first observation.
C11_SpikeIffPriorEmaExceeded ==
    cycle.kind = "call" =>
        /\ Emitted("spike") <=>
                /\ Evaluated
                /\ PriorEma.kind # "None"
                /\ CurrentVolume > 0
                /\ \/ (PriorEma.x >= EmaScale
                        /\ CurrentVolume * EmaScale >= SPIKE_MULTIPLIER * PriorEma.x)
                   \/ (PriorEma.x < EmaScale /\ CurrentVolume >= SPIKE_MULTIPLIER)
        /\ ~cycle.known => ~Emitted("spike")

C11_Witness ==
    /\ Emitted("spike")
    /\ PriorEma = Ema(100 * EmaScale)
    /\ CurrentVolume = 300
    /\ state[cycle.ticker].option_volume_ema = Ema(140 * EmaScale)

\* C12: in every evaluated cycle the EMA stored for the ticker becomes the
\* current total option volume when there was no prior EMA, and
\* EMA_ALPHA * current + (1 - EMA_ALPHA) * prior otherwise (0.2, prior 100,
\* current 200 give 120), whether or not a spike was emitted.
C12_EmaSeededThenSmoothed ==
    (cycle.kind = "call" /\ Evaluated) =>
        /\ cycle.ticker \in DOMAIN state
        /\ LET new == state[cycle.ticker].option_volume_ema
           IN  /\ new.kind = "float"
               /\ PriorEma.kind = "None" => new.x = CurrentVolume * EmaScale
               /\ PriorEma.kind # "None" =>
                       100 * new.x = EMA_ALPHA * CurrentVolume * EmaScale
                                     + (100 - EMA_ALPHA) * PriorEma.x
               /\ (PriorEma = Ema(100 * EmaScale) /\ CurrentVolume = 200) =>
                       new = Ema(120 * EmaScale)

C12_Witness ==
    /\ cycle.kind = "call"
    /\ Evaluated
    /\ PriorEma = Ema(100 * EmaScale)
    /\ CurrentVolume = 200
    /\ ~Emitted("spike")
    /\ state[cycle.ticker].option_volume_ema = Ema(120 * EmaScale)

\* what the cycle's snapshot says about the option chain
SnapshotNow == get_options_snapshot(cycle.answer.options, NEAREST_EXPIRIES_TO_CHECK)

\* the event is emitted only on the first sight of options, and that cycle
\* sets the flag and records the expiries
EmittedOnlyOnFirstOptions ==
    Emitted("new_options") =>
        /\ Evaluated
        /\ SnapshotNow.has_options
        /\ ~cycle.before.had_options_before
        /\ cycle.ticker \in DOMAIN state
        /\ state[cycle.ticker].had_options_before
        /\ state[cycle.ticker].known_expiries = SnapshotNow.expiries

\* a ticker whose flag is set keeps it in the next state
FlagKept ==
    \A t \in DOMAIN state :
        state[t].had_options_before => (t \in DOMAIN state' /\ state'[t].had_options_before)

\* C13: over any sequence of runs the 'options newly available' event is
\* emitted for a ticker only in a cycle where the snapshot has options and
\* had_options_before is false; that cycle sets had_options_before and
\* records the expiries as known_expiries; had_options_before never returns
\* to false; the event is emitted at most once per ticker.
C13_NewOptionsOncePerTicker ==
    /\ []EmittedOnlyOnFirstOptions
    /\ [][FlagKept]_vars
    /\ [](\A t \in SpacTickers : opt_alerts[t] <= 1)

\* C13 (amended): the same within a run, and across runs for as long as each
\* run loads the map the run before it ended with; a run that loads
\* something else (no bucket, a dropped save, a load that fell back to the
\* empty map, a run killed before its save) starts from the flags the store
\* holds and may emit the event again.
C13_NewOptionsOncePerCarriedState ==
    /\ []EmittedOnlyOnFirstOptions
    /\ [][(s_runs' = s_runs \/ carried') => FlagKept]_vars
    /\ [](carried => \A t \in SpacTickers : opt_alerts[t] <= 1)

C13_Witness ==
    /\ carried
    /\ s_runs = 2
    /\ cycle.kind = "call"
    /\ cycle.ticker = WATCHLIST[1]
    /\ Evaluated
    /\ SnapshotNow.has_options
    /\ cycle.before.had_options_before
    /\ ~Emitted("new_options")
    /\ opt_alerts[WATCHLIST[1]] = 1

\* the call obtained a price and an average volume, and they fail the gate
FailedGate ==
    /\ cycle.kind = "call"
    /\ cycle.answer.hist.kind = "ok"
    /\ LET h == cycle.answer.hist
           last_close == h.Close[Len(h.Close)]
       IN  \/ last_close < SPAC_PRICE_MIN
           \/ last_close > SPAC_PRICE_MAX
           \/ SumSeq(h.Volume) > AVG_VOL_MAX * Len(h.Volume)

\* C14: a ticker whose last close is outside [PRICE_MIN, PRICE_MAX] or whose
\* 30-day average volume exceeds AVG_VOL_MAX has an entry in the state map
\* after process_ticker but is not evaluated: no event, no options snapshot,
\* and had_options_before, known_expiries and option_volume_ema as before.
C14_GateFailureRecordsOnly ==
    FailedGate =>
        /\ cycle.ticker \in DOMAIN state
        /\ cycle.events = <<>>
        /\ cycle.snapshots = 0
        /\ ~cycle.raised
        /\ LET node == state[cycle.ticker]
           IN  /\ node.had_options_before = cycle.before.had_options_before
               /\ node.known_expiries = cycle.before.known_expiries
               /\ node.option_volume_ema = cycle.before.option_volume_ema

C14_Witness ==
    /\ FailedGate
    /\ cycle.answer.hist = Bars(1000, 500002)
    /\ cycle.known
    /\ cycle.before.had_options_before
    /\ cycle.before.option_volume_ema = Ema(300 * EmaScale)
    /\ state[cycle.ticker] = cycle.before

\* C15: a run reads the persisted state map once, before its loop, and
\* writes it at most once, after every ticker of the watchlist has been
\* processed; until that write, and so whenever the run is killed before
\* it, the persisted map is what it was when the run started.
C15_SavedOnceAfterTheLoop ==
    /\ s_pc \in {"loop", "save", "killed"} =>
            /\ state_blob = blob_before
            /\ s_io = [loads |-> 1, saves |-> 0]
    /\ s_pc = "done" =>
            /\ s_io = [loads |-> 1, saves |-> 1]
            /\ visited = WATCHLIST
            /\ state_blob \in {blob_before, [exists |-> TRUE, map |-> state]}

C15_Witness ==
    /\ s_pc = "killed"
    /\ s_i = Len(WATCHLIST)
    /\ blob_before.exists
    /\ state # blob_before.map
    /\ state_blob = blob_before
    /\ state[WATCHLIST[1]].had_options_before
    /\ ~state_blob.map[WATCHLIST[1]].had_options_before

(***************************************************************************)
(* Claims about both stores (checked under Spec).                          *)
(***************************************************************************)
\* C17: no failure of the store reaches the caller: a load returns its
\* default when the store cannot be reached or holds no blob, and a save,
\* of the ticker-state map and of the watchlist snapshot alike, drops the
\* write without raising, so fetch_watchlist returns its list and the option
\* monitor's main block goes on.
C17_StoreFailuresNeverPropagate ==
    /\ \A b \in BOOLEAN, ok \in BOOLEAN :
            /\ ~load_state(b, ok).raised
            /\ ~save_state(b, ok, state).raised
            /\ (~b \/ ~ok \/ ~state_blob.exists) => load_state(b, ok).value = EmptyMap
    /\ s_pc # "crashed"
    /\ (~GCS_BUCKET \/ ~store_up \/ ~blob.exists) => gcs_load_text(GCS_BUCKET, <<>>) = <<>>
    /\ returned.kind # "raise"

(***************************************************************************)
(* Claims about the scan loops (checked under SpecScan).                   *)
(***************************************************************************)
IsPrefix(a, b) == Len(a) <= Len(b) /\ \A k \in 1..Len(a) : a[k] = b[k]

\* tickers are taken one by one in the order of the list, none twice, a call
\* that raised costs its own ticker only, and no run ends in its loop
LoopsInOrder ==
    /\ IsPrefix(visited, WATCHLIST) /\ Len(visited) = s_i
    /\ IsPrefix(m_visited, watch) /\ Len(m_visited) = m_i
    /\ s_pc \in {"save", "done"} => visited = WATCHLIST
    /\ m_pc \in {"render", "done"} => m_visited = watch
    /\ s_pc # "crashed"
    /\ m_pc # "crashed"
    /\ \A k \in 1..Len(hits) : \E j \in 1..Len(m_visited) : hits[k].ticker = m_visited[j]
    /\ (m_last.kind = "call" /\ m_last.outcome = "raise") =>
            \A k \in 1..Len(hits) : hits[k].ticker # m_last.ticker

\* C16: in both monitors, whatever fails for a ticker (history, options,
\* news or filing query, alert delivery, audit log), every ticker of the
\* watchlist is visited exactly once and in order, a failure skips its own
\* ticker only, and the run reaches the step after the loop: the rendering
\* of the alert in catalyst_watch, save_state in spac_options.
C16_ScanLoopCompletes ==
    /\ []LoopsInOrder
    /\ (s_pc = "loop") ~> (s_pc = "save")
    /\ (s_pc = "save") ~> (s_pc = "done")
    /\ (m_pc = "loop") ~> (m_pc = "render")
    /\ (m_pc = "render") ~> (m_pc = "done")

C16_Witness ==
    /\ m_pc = "done"
    /\ Len(watch) = 3
    /\ m_visited = watch
    /\ Len(hits) = 1
    /\ hits[1].ticker = watch[2]
    /\ m_last = [kind |-> "call", ticker |-> watch[3], outcome |-> "raise"]
    /\ m_alert = [kind |-> "alert", tickers |-> <<watch[2]>>, posts |-> 1]

(***************************************************************************)
(* Claims about the backoff of the fetch client (checked under SpecHttp).  *)
(***************************************************************************)
\* C21: after failed attempt i (counted from 0) http_get / http_post_json
\* sleep REQ_BACKOFF ^ i exactly when a further attempt remains: every sleep
\* follows the failed attempt of its index and is followed by another
\* request, and no sleep stands between the last failed attempt and the
\* raise.
C21_SleepOnlyBetweenAttempts ==
    LET n == Len(net_log)
    IN  /\ \A k \in 1..n :
                net_log[k].ev = "sleep" =>
                    /\ k > 1
                    /\ net_log[k - 1].ev = "request"
                    /\ ~IsOk(net_log[k - 1].outcome)
                    /\ net_log[k].exponent = net_log[k - 1].attempt
                    /\ net_log[k].base_x10 = REQ_BACKOFF
                    /\ net_log[k].exponent + 1 < REQ_RETRIES
                    /\ k < n => net_log[k + 1].ev = "request"
        /\ \A k \in 1..(n - 1) :
                (net_log[k].ev = "request" /\ net_log[k + 1].ev = "request") =>
                    IsOk(net_log[k].outcome)
        /\ h_pc = "raised" => (n = 0 \/ net_log[n].ev = "request")

(***************************************************************************)
(* Claims about the creation of ticker state (checked under SpecSpac).     *)
(***************************************************************************)
\* C22: a ticker handed to process_ticker has an entry in the state map when
\* the call is over, however the call ended; the entry of a ticker that was
\* new and of which nothing was observed (no price, gate not passed, options
\* snapshot failed) holds the default values; so after the loop of a run
\* every ticker of WATCHLIST has an entry.
C22_EntryCreatedOnFirstEncounter ==
    /\ cycle.kind = "call" =>
            /\ cycle.ticker \in DOMAIN state
            /\ (~cycle.known /\ cycle.step \in {"no_price", "not_quiet", "snapshot_raised"})
                    => state[cycle.ticker] = DefaultNode
    /\ s_pc \in {"save", "done"} => SpacTickers \subseteq DOMAIN state

(***************************************************************************)
(* Claims about processes that share the ticker-state blob (checked under  *)
(* SpecRace).                                                              *)
(***************************************************************************)
\* whether the process has loaded / saved, and where in the order of store
\* operations it did
Did(r, op) == \E k \in 1..Len(r_log) : r_log[k].run = r /\ r_log[k].op = op

At(r, op) == CHOOSE k \in 1..Len(r_log) : r_log[k].run = r /\ r_log[k].op = op

\* both processes loaded before either saved
Overlap ==
    /\ \A r \in Runs : Did(r, "load")
    /\ \A r, q \in Runs : Did(q, "save") => At(r, "load") < At(q, "save")

\* process b loaded after process a had saved
OneAfterTheOther(a, b) ==
    /\ a # b
    /\ Did(a, "save") /\ Did(b, "load")
    /\ At(a, "save") < At(b, "load")

Saves == SelectSeq(r_log, LAMBDA e : e.op = "save")

Written == SelectSeq(r_log, LAMBDA e : e.op = "save" /\ e.ok)

\* C23 as stated: once both processes have finished, the blob holds exactly
\* the map of the process that saved last; and a process that loads after
\* the other has saved starts from the map the other saved, so that nothing
\* the other recorded is lost.
C23_LastSaverWinsAndSequentialKeeps ==
    /\ (\A r \in Runs : r_pc[r] = "done") =>
            state_blob = [exists |-> TRUE, map |-> r_state[Saves[Len(Saves)].run]]
    /\ \A a, b \in Runs : OneAfterTheOther(a, b) => r_loaded[b] = r_state[a]

\* C23, amended: the blob holds exactly the map of the process whose save
\* was written last (nothing of an earlier write is merged in), whatever the
\* other process recorded; processes that overlap both start from the blob
\* as it was before either saved; and a process that loads after the other
\* has saved starts from the map the other saved provided that save was
\* written and the load read the blob.
C23_LastWrittenSaveWins ==
    /\ Written = <<>> => state_blob = NoStateBlob
    /\ Written # <<>> =>
            state_blob = [exists |-> TRUE, map |-> r_state[Written[Len(Written)].run]]
    /\ Overlap => \A r \in Runs : r_loaded[r] = EmptyMap
    /\ \A a, b \in Runs :
            (OneAfterTheOther(a, b) /\ r_log[At(a, "save")].ok /\ r_log[At(b, "load")].ok)
                => r_loaded[b] = r_state[a]

\* both processes loaded before either saved, every store operation went
\* through, and a ticker that one process saw with options stands without
\* them in the blob the other wrote last
C23_Witness ==
    /\ \A r \in Runs : r_pc[r] = "done"
    /\ Overlap
    /\ \A k \in 1..Len(r_log) : r_log[k].ok
    /\ \E w, o \in Runs :
            /\ w # o
            /\ Saves[Len(Saves)].run = w
            /\ state_blob.map = r_state[w]
            /\ \E t \in DOMAIN r_state[o] \cap DOMAIN state_blob.map :
                    /\ r_state[o][t].had_options_before
                    /\ r_state[o][t].option_volume_ema # None
                    /\ ~state_blob.map[t].had_options_before
                    /\ state_blob.map[t].option_volume_ema = None

====
